---- MODULE Spec2Model ----
(***************************************************************************)
(* Preflop decision engine of the poker study tool: the hand/situation     *)
(* classifier (poker_study_tool.py), the range table and its process-wide  *)
(* cache, the ICM pressure coefficient and recommend_preflop               *)
(* (decision_engine.py), the StudySession and the quiz pages              *)
(* (streamlit_app.py, preprocess.py).                                      *)
(*                                                                         *)
(* Python strings are sequences of one-character strings, so that upper(), *)
(* lower(), strip(), rstrip(), split(), "in", startswith() and endswith()  *)
(* are computed character by character.  Python values of several types    *)
(* (metadata values, DataFrame cells) are tagged records.                  *)
(***************************************************************************)
EXTENDS Integers, Sequences, FiniteSets, TLC

VARIABLES source, _RANGE_TABLE, loads, io, pc, state, meta, result, callers,
          session, ui

vars == <<source, _RANGE_TABLE, loads, io, pc, state, meta, result, callers,
          session, ui>>

(***************************************************************************)
(* Python str operations                                                   *)
(***************************************************************************)
UPPERS == <<"A","B","C","D","E","F","G","H","I","J","K","L","M",
            "N","O","P","Q","R","S","T","U","V","W","X","Y","Z">>

LOWERS == <<"a","b","c","d","e","f","g","h","i","j","k","l","m",
            "n","o","p","q","r","s","t","u","v","w","x","y","z">>

DIGITS == <<"0","1","2","3","4","5","6","7","8","9">>

WHITESPACE == {" "}

UpperChar(c) ==
    IF \E i \in 1..26 : LOWERS[i] = c
    THEN UPPERS[CHOOSE i \in 1..26 : LOWERS[i] = c]
    ELSE c

LowerChar(c) ==
    IF \E i \in 1..26 : UPPERS[i] = c
    THEN LOWERS[CHOOSE i \in 1..26 : UPPERS[i] = c]
    ELSE c

\* s.upper()
Upper(s) == [i \in 1..Len(s) |-> UpperChar(s[i])]

\* s.lower()
Lower(s) == [i \in 1..Len(s) |-> LowerChar(s[i])]

\* s.rstrip(chars): drop every trailing character that is in chars
RStrip(s, chars) ==
    LET n == CHOOSE i \in 0..Len(s) :
                 /\ (i = 0 \/ s[i] \notin chars)
                 /\ \A j \in (i+1)..Len(s) : s[j] \in chars
    IN  SubSeq(s, 1, n)

\* s.lstrip(chars)
LStrip(s, chars) ==
    LET n == CHOOSE i \in 1..(Len(s)+1) :
                 /\ (i = Len(s)+1 \/ s[i] \notin chars)
                 /\ \A j \in 1..(i-1) : s[j] \in chars
    IN  SubSeq(s, n, Len(s))

\* s.strip()
Strip(s) == LStrip(RStrip(s, WHITESPACE), WHITESPACE)

\* sub in s
Contains(s, sub) ==
    \E i \in 1..(Len(s) - Len(sub) + 1) : SubSeq(s, i, i + Len(sub) - 1) = sub

\* s.startswith(prefix)
StartsWith(s, prefix) ==
    Len(s) >= Len(prefix) /\ SubSeq(s, 1, Len(prefix)) = prefix

\* s.endswith(suffix)
EndsWith(s, suffix) ==
    Len(s) >= Len(suffix) /\ SubSeq(s, Len(s) - Len(suffix) + 1, Len(s)) = suffix

\* s[::-1]
Reversed(s) == [i \in 1..Len(s) |-> s[Len(s) + 1 - i]]

\* s.split(sep)[0] for a one-character sep: the text before the first sep
SplitFirst(s, sep) ==
    LET n == CHOOSE i \in 1..(Len(s)+1) :
                 /\ (i = Len(s)+1 \/ s[i] = sep)
                 /\ \A j \in 1..(i-1) : s[j] # sep
    IN  SubSeq(s, 1, n - 1)

IsDigits(s) == \A i \in 1..Len(s) : \E d \in 1..10 : DIGITS[d] = s[i]

DigitVal(c) == (CHOOSE d \in 1..10 : DIGITS[d] = c) - 1

RECURSIVE NatVal(_)
NatVal(s) ==
    IF Len(s) = 0 THEN 0
    ELSE 10 * NatVal(SubSeq(s, 1, Len(s) - 1)) + DigitVal(s[Len(s)])

\* int(s) for a str: surrounding blanks are ignored, then an optional sign and
\* decimal digits; anything else is a ValueError (ok = FALSE).
ParseInt(s) ==
    LET t == Strip(s)
        neg == Len(t) > 0 /\ t[1] = "-"
        d == IF Len(t) > 0 /\ t[1] \in {"-", "+"} THEN SubSeq(t, 2, Len(t)) ELSE t
    IN  IF Len(d) > 0 /\ IsDigits(d)
        THEN [ok |-> TRUE, n |-> IF neg THEN 0 - NatVal(d) ELSE NatVal(d)]
        ELSE [ok |-> FALSE, n |-> 0]

\* float(s) for a str "<digits>", "<digits>.<digits>", "<digits>." or
\* ".<digits>" with an optional sign; anything else is a ValueError.  The value
\* is kept in tenths: the strings of the model carry at most one fractional
\* digit, so the tenths are exact.
ParseFloat(s) ==
    LET t == Strip(s)
        neg == Len(t) > 0 /\ t[1] = "-"
        d == IF Len(t) > 0 /\ t[1] \in {"-", "+"} THEN SubSeq(t, 2, Len(t)) ELSE t
        ip == SplitFirst(d, ".")
        fp == SubSeq(d, Len(ip) + 2, Len(d))
        mag == 10 * NatVal(ip) + (IF Len(fp) > 0 THEN DigitVal(fp[1]) ELSE 0)
    IN  IF Len(ip) + Len(fp) > 0 /\ IsDigits(ip) /\ IsDigits(fp)
        THEN [ok |-> TRUE, tenths |-> IF neg THEN 0 - mag ELSE mag]
        ELSE [ok |-> FALSE, tenths |-> 0]

RECURSIVE NatStr(_)
NatStr(n) ==
    IF n < 10 THEN <<DIGITS[n + 1]>>
    ELSE Append(NatStr(n \div 10), DIGITS[(n % 10) + 1])

\* f"{x:.1f}" for a non-negative x given in tenths
Format1f(tenths) == NatStr(tenths \div 10) \o <<".">> \o <<DIGITS[(tenths % 10) + 1]>>

(***************************************************************************)
(* Hand/situation classifier                                               *)
(***************************************************************************)
s_premium == <<"p","r","e","m","i","u","m">>
s_strong_pair == <<"s","t","r","o","n","g"," ","p","a","i","r">>
s_small_pair == <<"s","m","a","l","l"," ","p","a","i","r">>
s_strong_broadway == <<"s","t","r","o","n","g"," ","b","r","o","a","d","w","a","y">>
s_suited_connector == <<"s","u","i","t","e","d"," ","c","o","n","n","e","c","t","o","r">>
s_weak_offsuit == <<"w","e","a","k"," ","o","f","f","s","u","i","t">>

\* A classifier that knows the connectors in the listed rank order only
hand_class_listed_order(hand) ==
    LET h == Upper(hand)
        rank_part == RStrip(h, {"O", "S"})
        connectors == {<<"9","8">>, <<"8","7">>, <<"7","6">>, <<"6","5">>, <<"5","4">>}
    IN  IF Len(rank_part) = 2 /\ rank_part[1] = rank_part[2]
        THEN IF rank_part \in {<<"A","A">>, <<"K","K">>, <<"Q","Q">>}
             THEN s_premium
             ELSE IF rank_part \in {<<"J","J">>, <<"T","T">>, <<"9","9">>,
                                    <<"8","8">>, <<"7","7">>}
                  THEN s_strong_pair
                  ELSE s_small_pair
        ELSE IF rank_part \in {<<"A","K">>, <<"A","Q">>}
        THEN s_premium
        ELSE IF rank_part \in {<<"K","Q">>, <<"Q","J">>, <<"J","T">>, <<"J","Q">>, <<"K","J">>}
        THEN s_strong_broadway
        ELSE IF rank_part \in connectors
        THEN s_suited_connector
        ELSE s_weak_offsuit

\* poker_study_tool.hand_class
hand_class(hand) ==
    LET h == Upper(hand)
        rank_part == RStrip(h, {"O", "S"})
        connectors == {<<"9","8">>, <<"8","7">>, <<"7","6">>, <<"6","5">>, <<"5","4">>}
    IN  IF Len(rank_part) = 2 /\ rank_part[1] = rank_part[2]
        THEN IF rank_part \in {<<"A","A">>, <<"K","K">>, <<"Q","Q">>}
             THEN s_premium
             ELSE IF rank_part \in {<<"J","J">>, <<"T","T">>, <<"9","9">>,
                                    <<"8","8">>, <<"7","7">>}
                  THEN s_strong_pair
                  ELSE s_small_pair
        ELSE IF rank_part \in {<<"A","K">>, <<"A","Q">>}
        THEN s_premium
        ELSE IF rank_part \in {<<"K","Q">>, <<"Q","J">>, <<"J","T">>, <<"J","Q">>, <<"K","J">>}
        THEN s_strong_broadway
        ELSE IF Reversed(rank_part) \in connectors \/ rank_part \in connectors
        THEN s_suited_connector
        ELSE s_weak_offsuit

\* effective_bb is a float; the model keeps it in tenths of a big blind
BB == 10

\* Buckets whose upper thresholds are taken in
compute_stack_bucket_closed(bb) ==
    IF bb <= 10 * BB THEN <<"<","1","0">>
    ELSE IF bb <= 20 * BB THEN <<"1","0","-","2","0">>
    ELSE IF bb <= 40 * BB THEN <<"2","0","-","4","0">>
    ELSE <<"4","0","+">>

\* decision_engine.compute_stack_bucket; bb is the stack in tenths of a big blind
compute_stack_bucket(bb) ==
    IF bb < 10 * BB THEN <<"<","1","0">>
    ELSE IF bb < 20 * BB THEN <<"1","0","-","2","0">>
    ELSE IF bb < 40 * BB THEN <<"2","0","-","4","0">>
    ELSE <<"4","0","+">>

\* poker_study_tool.classify_stack_bucket
classify_stack_bucket(bb) ==
    IF bb <= 10 * BB THEN "short"
    ELSE IF bb <= 25 * BB THEN "medium"
    ELSE "deep"

\* poker_study_tool.determine_position_group
determine_position_group(pos) ==
    LET early_positions == {<<"U","T","G">>, <<"U","T","G","1">>, <<"U","T","G","2">>,
                            <<"H","J">>}
        late_positions == {<<"C","O">>, <<"B","T","N">>}
        blinds == {<<"S","B">>, <<"B","B">>}
    IN  IF Upper(pos) \in early_positions THEN "early"
        ELSE IF Upper(pos) \in late_positions THEN "late"
        ELSE IF Upper(pos) \in blinds THEN "blinds"
        ELSE "middle"

\* poker_study_tool.general_concept_analysis: the three sentences of the note,
\* each named by the branch that selects it
general_concept_analysis(st) ==
    LET bucket == classify_stack_bucket(st.effective_bb)
        pos_group == determine_position_group(st.position)
        hand_type == hand_class(st.hero_hand)
        base == IF bucket = "short" THEN "At short stacks, jam or fold decisions dominate"
                ELSE IF bucket = "medium" THEN "At medium stacks, jam/fold plays are common"
                ELSE "At deep stacks, a wider range of actions becomes viable"
        position_note ==
            IF pos_group = "early" THEN "Being in an early position, ranges are tighter"
            ELSE IF pos_group = "late" THEN "In a late position, ranges widen considerably"
            ELSE IF pos_group = "blinds" THEN "In the blinds, one often defends a wide range"
            ELSE "From a middle position, one plays a moderately tight range"
        hand_note ==
            IF hand_type = s_premium THEN "Premium hands almost always justify aggressive actions"
            ELSE IF hand_type = s_strong_pair THEN "Strong pairs are typically good for raising or jamming"
            ELSE IF hand_type = s_small_pair THEN "Small pairs often become jam candidates at short stacks"
            ELSE IF hand_type = s_strong_broadway THEN "Strong broadway hands are near the top of your opening range"
            ELSE IF hand_type = s_suited_connector THEN "Suited connectors gain value in multi-way pots"
            ELSE "Weaker offsuit hands are typically folded"
    IN  <<[text |-> base], [text |-> position_note], [text |-> hand_note]>>

(***************************************************************************)
(* Python values                                                           *)
(***************************************************************************)
PyNone == [t |-> "none"]
PyStr(s) == [t |-> "str", s |-> s]
PyInt(n) == [t |-> "int", n |-> n]
PyBool(b) == [t |-> "bool", b |-> b]
\* float('nan'), the value pandas stores for a missing cell
PyNaN == [t |-> "float", nan |-> TRUE]

\* bool(v)
Truthy(v) ==
    CASE v.t = "none" -> FALSE
      [] v.t = "bool" -> v.b
      [] v.t = "str" -> Len(v.s) > 0
      [] v.t = "int" -> v.n # 0
      [] OTHER -> TRUE

\* str(v)
PyStrOf(v) ==
    CASE v.t = "none" -> <<"N","o","n","e">>
      [] v.t = "bool" -> IF v.b THEN <<"T","r","u","e">> ELSE <<"F","a","l","s","e">>
      [] v.t = "str" -> v.s
      [] v.t = "int" -> IF v.n < 0 THEN <<"-">> \o NatStr(0 - v.n) ELSE NatStr(v.n)
      [] OTHER -> <<"n","a","n">>

\* int(v): ok = FALSE is the TypeError / ValueError
PyIntOf(v) ==
    CASE v.t = "int" -> [ok |-> TRUE, n |-> v.n]
      [] v.t = "bool" -> [ok |-> TRUE, n |-> IF v.b THEN 1 ELSE 0]
      [] v.t = "str" -> ParseInt(v.s)
      [] OTHER -> [ok |-> FALSE, n |-> 0]

\* int(float(v)): truncation toward zero; ok = FALSE is the TypeError / ValueError
PyIntOfFloat(v) ==
    CASE v.t = "int" -> [ok |-> TRUE, n |-> v.n]
      [] v.t = "bool" -> [ok |-> TRUE, n |-> IF v.b THEN 1 ELSE 0]
      [] v.t = "str" ->
            LET f == ParseFloat(v.s)
            IN  [ok |-> f.ok,
                 n |-> IF f.tenths < 0 THEN 0 - ((0 - f.tenths) \div 10)
                       ELSE f.tenths \div 10]
      [] OTHER -> [ok |-> FALSE, n |-> 0]

\* dict.get(key, default)
Get(d, key, default) == IF key \in DOMAIN d THEN d[key] ELSE default

(***************************************************************************)
(* Pressure model.  The coefficient is an exact fraction [num, den] in     *)
(* lowest terms; every factor of the code is a decimal literal.            *)
(***************************************************************************)
RECURSIVE GCD(_, _)
GCD(a, b) == IF b = 0 THEN a ELSE GCD(b, a % b)

Frac(n, d) == [num |-> n \div GCD(n, d), den |-> d \div GCD(n, d)]

\* pressure *= f
Mul(p, f) == Frac(p.num * f.num, p.den * f.den)

\* p > q and p < q on fractions
Gt(p, q) == p.num * q.den > q.num * p.den
Lt(p, q) == p.num * q.den < q.num * p.den

s_unlimited == <<"u","n","l","i","m","i","t","e","d">>
s_multi == <<"m","u","l","t","i">>

\* compute_icm_pressure, lines 101-107: players_left as an int, None when the
\* key is absent or None; raised when int() or float() raises
players_left_of(pl) ==
    IF pl.t = "str" /\ Contains(pl.s, <<"/">>)
    THEN [raised |-> ~ParseInt(Strip(SplitFirst(pl.s, "/"))).ok, none |-> FALSE,
          n |-> ParseInt(Strip(SplitFirst(pl.s, "/"))).n]
    ELSE IF pl # PyNone
    THEN [raised |-> ~PyIntOfFloat(pl).ok, none |-> FALSE, n |-> PyIntOfFloat(pl).n]
    ELSE [raised |-> FALSE, none |-> TRUE, n |-> 0]

\* A distance test whose bands stop short of 6 and 18
distance_factor_exclusive(players_left, places_paid) ==
    IF ~players_left.none /\ places_paid > 0
    THEN IF players_left.n - places_paid < 6 THEN Frac(12, 10)
         ELSE IF players_left.n - places_paid < 18 THEN Frac(11, 10)
         ELSE Frac(1, 1)
    ELSE Frac(1, 1)

\* compute_icm_pressure, lines 109-114: the factor for the distance to the bubble
distance_factor(players_left, places_paid) ==
    IF ~players_left.none /\ places_paid > 0
    THEN IF players_left.n - places_paid <= 6 THEN Frac(12, 10)
         ELSE IF players_left.n - places_paid <= 18 THEN Frac(11, 10)
         ELSE Frac(1, 1)
    ELSE Frac(1, 1)

\* compute_icm_pressure, lines 100-117: the try block.  An exception raised by
\* either conversion is swallowed by the except clause, which leaves the
\* pressure as it was.
try_bubble(players_left, places_paid) ==
    IF players_left.raised \/ ~places_paid.ok
    THEN Frac(1, 1)
    ELSE distance_factor(players_left, places_paid.n)

\* A bubble factor that takes one paid place when the key is absent
bubble_factor_paid_by_default(m) ==
    try_bubble(players_left_of(Get(m, "players_left", PyNone)),
               PyIntOf(Get(m, "places_paid", PyInt(1))))

bubble_factor(m) ==
    try_bubble(players_left_of(Get(m, "players_left", PyNone)),
               PyIntOf(Get(m, "places_paid", PyInt(0))))

\* compute_icm_pressure, lines 119-121
apply_reentry(p, reentry) ==
    IF Contains(reentry, s_unlimited) \/ Contains(reentry, s_multi)
    THEN Mul(p, Frac(9, 10)) ELSE p

\* compute_icm_pressure, lines 123-124
apply_bubble_protection(p, m) ==
    IF Truthy(Get(m, "bubble_protection", PyNone)) THEN Mul(p, Frac(95, 100)) ELSE p

\* compute_icm_pressure, lines 127-128
apply_bounty(p, m) ==
    IF Truthy(Get(m, "bounty_flag", PyNone)) \/ Truthy(Get(m, "is_pko", PyNone))
    THEN Mul(p, Frac(95, 100)) ELSE p

\* compute_icm_pressure, lines 130-135
apply_table_type(p, tt) ==
    IF tt.t = "str"
    THEN IF StartsWith(Strip(tt.s), <<"6">>) THEN Mul(p, Frac(95, 100))
         ELSE IF StartsWith(Strip(tt.s), <<"7">>) THEN Mul(p, Frac(98, 100))
         ELSE p
    ELSE p

\* decision_engine.compute_icm_pressure
compute_icm_pressure(m) ==
    IF DOMAIN m = {}
    THEN Frac(1, 1)
    ELSE apply_table_type(
             apply_bounty(
                 apply_bubble_protection(
                     apply_reentry(Mul(Frac(1, 1), bubble_factor(m)),
                                   Lower(PyStrOf(Get(m, "reentry", PyStr(<<>>))))),
                     m),
                 m),
             Get(m, "table_type", PyNone))

\* int() or float() raises inside the try block of lines 100-117
bubble_raises(m) ==
    \/ players_left_of(Get(m, "players_left", PyNone)).raised
    \/ ~PyIntOf(Get(m, "places_paid", PyInt(0))).ok

\* A try block without its except clause: the exception leaves the function
pressure_outcome_propagating(m) ==
    IF DOMAIN m # {} /\ bubble_raises(m)
    THEN [kind |-> "raise", exc |-> "ValueError"]
    ELSE compute_icm_pressure(m)

\* An except clause that returns the pressure at once, skipping lines 118-136
pressure_outcome_aborting(m) ==
    IF DOMAIN m # {} /\ bubble_raises(m)
    THEN Frac(1, 1)
    ELSE compute_icm_pressure(m)

\* What the caller of compute_icm_pressure gets: the except clause of line 115
\* swallows every exception of the try block and no statement outside the
\* block raises for None, bool, int and str values, so it is the coefficient
pressure_outcome(m) == compute_icm_pressure(m)

(***************************************************************************)
(* Range table: the CSV source, load_ranges and the process-wide cache     *)
(***************************************************************************)
\* The strings pandas.read_csv turns into NaN by default
NA_VALUES == {<<>>, <<"N","/","A">>, <<"N","A">>, <<"N","a","N">>, <<"n","a","n">>, <<"n","/","a">>, <<"N","U","L","L">>, <<"n","u","l","l">>, <<"N","o","n","e">>}

\* One cell of the CSV as read_csv stores it in an object column
read_cell(text) == IF text \in NA_VALUES THEN PyNaN ELSE PyStr(text)

\* A loader that hands over the table before its last row is in
load_ranges_truncated(src) ==
    IF ~src.exists
    THEN [raised |-> TRUE, df |-> <<>>]
    ELSE [raised |-> FALSE,
          df |-> [i \in 1..(IF Len(src.rows) > 0 THEN Len(src.rows) - 1 ELSE 0) |->
                     [c \in DOMAIN src.rows[i] |-> read_cell(src.rows[i][c])]]]

\* decision_engine.load_ranges: raised is the error of a missing file; df is the
\* DataFrame, one record per CSV row in file order, indexed by Index
load_ranges(src) ==
    IF ~src.exists
    THEN [raised |-> TRUE, df |-> <<>>]
    ELSE [raised |-> FALSE,
          df |-> [i \in 1..Len(src.rows) |->
                     [c \in DOMAIN src.rows[i] |-> read_cell(src.rows[i][c])]]]

\* The index entry of a row after set_index
Index(r) == <<r.position, r.stack_bb_bucket, r.vs_situation, r.hand_class>>

\* A get_range_table without the test of the global: every call loads again
get_range_table_reloading(cache, src, n) ==
    LET r == load_ranges(src)
    IN  IF r.raised
        THEN [raised |-> TRUE, cache |-> cache, loads |-> n, io |-> 1]
        ELSE [raised |-> FALSE,
              cache |-> [t |-> "DataFrame", id |-> n + 1, rows |-> r.df],
              loads |-> n + 1, io |-> 1]

\* A get_range_table that answers a failed load with an empty table and keeps it
get_range_table_masking(cache, src, n) ==
    IF cache # PyNone
    THEN [raised |-> FALSE, cache |-> cache, loads |-> n, io |-> 0]
    ELSE [raised |-> FALSE,
          cache |-> [t |-> "DataFrame", id |-> n + 1, rows |-> load_ranges(src).df],
          loads |-> n + 1, io |-> 1]

\* decision_engine.get_range_table, run without interruption: the cache, the
\* count of tables built and the number of load_ranges calls made (io)
get_range_table(cache, src, n) ==
    IF cache # PyNone
    THEN [raised |-> FALSE, cache |-> cache, loads |-> n, io |-> 0]
    ELSE LET r == load_ranges(src)
         IN  IF r.raised
             THEN [raised |-> TRUE, cache |-> cache, loads |-> n, io |-> 1]
             ELSE [raised |-> FALSE,
                   cache |-> [t |-> "DataFrame", id |-> n + 1, rows |-> r.df],
                   loads |-> n + 1, io |-> 1]

(***************************************************************************)
(* Recommendation engine                                                   *)
(***************************************************************************)
s_unopened == <<"u","n","o","p","e","n","e","d">>
s_vs_open == <<"v","s","_","o","p","e","n">>
s_Unknown == <<"U","n","k","n","o","w","n">>
s_NA == <<"N","/","A">>
s_Jam == <<"J","a","m">>
s_Open == <<"O","p","e","n">>
s_Fold == <<"F","o","l","d">>
s_Call == <<"C","a","l","l">>
s_Raise == <<"R","a","i","s","e">>
s_bb == <<"b","b">>

NOTE_JAM_TO_OPEN == [text |-> " Adjusted to smaller open due to ICM pressure."]
NOTE_OPEN_REDUCED == [text |-> " Slightly reduced open size under ICM pressure."]
NOTE_LOOSENED == [text |-> " Loosened to jam due to low ICM pressure."]

\* A heuristic that looks for the tokens in lower case only
vs_situation_case_sensitive(opener) ==
    IF ~Truthy(opener) \/ Strip(opener.s) = <<>>
    THEN s_unopened
    ELSE IF Contains(opener.s, <<"o","p","e","n">>) \/ Contains(opener.s, <<"r","a","i","s","e">>)
         THEN s_vs_open
         ELSE s_unopened

\* recommend_preflop, lines 151-159: the vs_situation heuristic
vs_situation_of(opener) ==
    IF ~Truthy(opener) \/ Strip(opener.s) = <<>>
    THEN s_unopened
    ELSE IF Contains(Lower(opener.s), <<"o","p","e","n">>) \/ Contains(Lower(opener.s), <<"r","a","i","s","e">>)
         THEN s_vs_open
         ELSE s_unopened

\* A key that falls back to the unopened row whatever the hero faces
lookup_key_fuzzy(st) ==
    <<PyStr(st.position), PyStr(compute_stack_bucket(st.effective_bb)),
      PyStr(s_unopened), PyStr(hand_class(st.hero_hand))>>

\* recommend_preflop, line 162: the lookup key, as the index holds it
lookup_key(st) ==
    <<PyStr(st.position), PyStr(compute_stack_bucket(st.effective_bb)),
      PyStr(vs_situation_of(st.opener)), PyStr(hand_class(st.hero_hand))>>

\* The rows of the DataFrame whose index entry is the key
Matches(df, key) == {i \in 1..Len(df) : Index(df[i]) = key}

\* table.loc[key][col]: the cell of the one matching row, or a Series of the
\* cells of all matching rows when the key occurs more than once in the index
Loc(df, key, col) ==
    LET hits == Matches(df, key)
    IN  IF Cardinality(hits) = 1
        THEN df[CHOOSE i \in hits : TRUE][col]
        ELSE [t |-> "Series",
              cells |-> [k \in 1..Cardinality(hits) |->
                            df[CHOOSE i \in hits :
                                  Cardinality({j \in hits : j < i}) = k - 1][col]]]

Return(action, size, note) ==
    [kind |-> "return", action |-> action, size |-> size, note |-> note]

Raise(exc) == [kind |-> "raise", exc |-> exc]

\* val - 0.3 without the floor
new_val_unfloored(val) == val - 3

\* A size that grows by 0.3 under pressure
new_val_raised(val) == IF val + 3 > 20 THEN val + 3 ELSE 20

\* recommend_preflop, line 185: max(2.0, val - 0.3), in tenths
new_val_of(val) == IF val - 3 > 20 THEN val - 3 ELSE 20

\* An engine that returns the matched row as the table holds it
adjust_jam_kept(action, size, note, pressure, st) ==
    Return(action, size, note)

\* A tightening test that takes the bound 1.1 in
tightens_from_1_1(pressure) == ~Lt(pressure, Frac(11, 10))

\* recommend_preflop, line 174: pressure > 1.1
tightens(pressure) == Gt(pressure, Frac(11, 10))

\* recommend_preflop, line 190: pressure < 0.95
loosens(pressure) == Lt(pressure, Frac(95, 100))

\* A stack test that stops at 10bb
short_stack_below_10(st) == st.effective_bb < 10 * BB

\* A stack test that takes 12bb in
short_stack_upto_12(st) == st.effective_bb <= 12 * BB

\* recommend_preflop, line 192: state.effective_bb < 12
short_stack(st) == st.effective_bb < 12 * BB

\* recommend_preflop, lines 172-196: the pressure adjustment of a matched row
adjust(action, size, note, pressure, st) ==
    IF tightens(pressure)
    THEN IF action.t # "str"
         THEN Raise("AttributeError")
         ELSE IF Lower(action.s) = Lower(s_Jam)
         THEN Return(PyStr(s_Open), PyStr(<<"2",".","2","b","b">>), note \o <<NOTE_JAM_TO_OPEN>>)
         ELSE IF Lower(action.s) = Lower(s_Open)
         THEN IF size.t # "str"
              THEN Raise("AttributeError")
              ELSE IF EndsWith(size.s, s_bb)
              THEN LET val == ParseFloat(RStrip(size.s, {"b"}))
                   IN  IF val.ok
                       THEN Return(action,
                                   PyStr(Format1f(new_val_of(val.tenths)) \o s_bb),
                                   note \o <<NOTE_OPEN_REDUCED>>)
                       ELSE Return(action, size, note \o <<NOTE_OPEN_REDUCED>>)
              ELSE Return(action, size, note \o <<NOTE_OPEN_REDUCED>>)
         ELSE Return(action, size, note)
    ELSE IF loosens(pressure)
    THEN IF action.t # "str"
         THEN Raise("AttributeError")
         ELSE IF Lower(action.s) \in {Lower(s_Fold), Lower(s_Call)}
                 /\ short_stack(st)
         THEN Return(PyStr(s_Jam), PyStr(s_Jam), note \o <<NOTE_LOOSENED>>)
         ELSE Return(action, size, note)
    ELSE Return(action, size, note)

\* decision_engine.recommend_preflop once the table is at hand
recommend_preflop(df, st, m) ==
    LET key == lookup_key(st)
    IN  IF Matches(df, key) # {}
        THEN adjust(Loc(df, key, "action"), Loc(df, key, "size"),
                    <<[lookup |-> [h_class |-> hand_class(st.hero_hand),
                                   effective_bb |-> st.effective_bb,
                                   position |-> st.position,
                                   vs_situation |-> vs_situation_of(st.opener)]]>>,
                    compute_icm_pressure(m), st)
        ELSE Return(PyStr(s_Unknown), PyStr(s_NA), general_concept_analysis(st))

\* An engine that stores the adjusted action and size in the matched row
table_written_back(cache, st, m) ==
    IF cache = PyNone
    THEN cache
    ELSE LET key == lookup_key(st)
             r == recommend_preflop(cache.rows, st, m)
         IN  IF r.kind = "return" /\ Cardinality(Matches(cache.rows, key)) = 1
             THEN [cache EXCEPT !.rows = [i \in 1..Len(cache.rows) |->
                      IF Index(cache.rows[i]) = key
                      THEN [cache.rows[i] EXCEPT !.action = r.action, !.size = r.size]
                      ELSE cache.rows[i]]]
             ELSE cache

\* An engine that lower-cases the action column of the table in place
table_normalised(cache, st, m) ==
    IF cache = PyNone
    THEN cache
    ELSE [cache EXCEPT !.rows = [i \in 1..Len(cache.rows) |->
             IF cache.rows[i].action.t = "str"
             THEN [cache.rows[i] EXCEPT !.action = PyStr(Lower(cache.rows[i].action.s))]
             ELSE cache.rows[i]]]

\* What a call of recommend_preflop leaves in the cached table: the function
\* assigns the adjusted action and size to its locals only
table_after_recommend(cache, st, m) == cache

(***************************************************************************)
(* Study session (poker_study_tool.StudySession) and the quiz pages        *)
(***************************************************************************)
\* HandState.to_json: json.dumps of the fields in declaration order; board and
\* pot keep their default None
to_json(st) ==
    <<"json", st.hero_hand, st.position, st.effective_bb, st.opener, PyNone, PyNone>>

\* StudySession.__init__: hands = {}.  order is the insertion order of the
\* dict; adds counts the add_hand calls made, hand_id is what the last one
\* returned and raised tells whether the last record_action raised KeyError
NEW_SESSION ==
    [hands |-> <<>>, order |-> <<>>, adds |-> 0, hand_id |-> PyNone, raised |-> FALSE]

\* StudySession.add_hand
add_hand(s, st) ==
    LET hand_id == to_json(st)
        entry == [state |-> to_json(st),
                  analysis |-> general_concept_analysis(st),
                  player_action |-> PyNone]
    IN  [hands |-> [k \in DOMAIN s.hands \cup {hand_id} |->
                       IF k = hand_id THEN entry ELSE s.hands[k]],
         order |-> IF hand_id \in DOMAIN s.hands THEN s.order
                   ELSE Append(s.order, hand_id),
         adds |-> s.adds + 1,
         hand_id |-> hand_id,
         raised |-> FALSE]

\* StudySession.record_action
record_action(s, hand_id, action) ==
    IF hand_id \notin DOMAIN s.hands
    THEN [s EXCEPT !.raised = TRUE]
    ELSE [s EXCEPT !.hands[hand_id].player_action = PyStr(action), !.raised = FALSE]

\* The index a page run works with: the stored one, or 0 when the key is absent
Get0(quiz_idx) == IF quiz_idx = PyNone THEN 0 ELSE quiz_idx.n

\* st.session_state of the review app before any page has run: no "hands",
\* no "quiz_idx" and no "quiz_index" entry
NEW_UI ==
    [hands |-> <<>>, quiz_idx |-> PyNone, quiz_index |-> PyNone,
     raised |-> FALSE, event |-> "start"]

\* An index that advances whether or not a next hand exists
next_index_unchecked(idx, n) == idx + 1

\* render_quiz_page, "Reveal & Next": idx + 1 while a next hand exists, else 0
next_index(idx, n) == IF idx + 1 < n THEN idx + 1 ELSE 0

\* One run of render_quiz_page over n hands with the index kept under a key
\* of st.session_state: nothing happens without hands; the index is set to 0
\* when absent; hands[idx] raises IndexError for an index past the list; a
\* pressed "Reveal & Next" stores the next index
quiz_page(quiz_idx, n, pressed) ==
    IF n = 0
    THEN [quiz_idx |-> quiz_idx, raised |-> FALSE]
    ELSE IF Get0(quiz_idx) >= n
    THEN [quiz_idx |-> PyInt(Get0(quiz_idx)), raised |-> TRUE]
    ELSE [quiz_idx |-> PyInt(IF pressed THEN next_index(Get0(quiz_idx), n)
                             ELSE Get0(quiz_idx)),
          raised |-> FALSE]

(***************************************************************************)
(* Inputs                                                                  *)
(***************************************************************************)
\* Rows of a range table in the format of ranges/preflop_balanced_example.csv,
\* one per key
EXAMPLE_ROWS == <<
    [position |-> <<"B","T","N">>, stack_bb_bucket |-> <<"1","0","-","2","0">>, vs_situation |-> <<"u","n","o","p","e","n","e","d">>,
     hand_class |-> s_premium,
     action |-> <<"J","a","m">>, size |-> <<"J","a","m">>],
    [position |-> <<"B","T","N">>, stack_bb_bucket |-> <<"2","0","-","4","0">>, vs_situation |-> <<"u","n","o","p","e","n","e","d">>,
     hand_class |-> s_premium,
     action |-> <<"O","p","e","n">>, size |-> <<"2",".","5","b","b">>],
    [position |-> <<"B","T","N">>, stack_bb_bucket |-> <<"<","1","0">>, vs_situation |-> <<"u","n","o","p","e","n","e","d">>,
     hand_class |-> s_weak_offsuit,
     action |-> <<"F","o","l","d">>, size |-> <<"N","/","A">>],
    [position |-> <<"B","T","N">>, stack_bb_bucket |-> <<"1","0","-","2","0">>, vs_situation |-> <<"u","n","o","p","e","n","e","d">>,
     hand_class |-> s_weak_offsuit,
     action |-> <<"F","o","l","d">>, size |-> <<"N","/","A">>],
    [position |-> <<"C","O">>, stack_bb_bucket |-> <<"1","0","-","2","0">>, vs_situation |-> <<"v","s","_","o","p","e","n">>,
     hand_class |-> s_strong_broadway,
     action |-> <<"C","a","l","l">>, size |-> <<"N","/","A">>],
    [position |-> <<"U","T","G">>, stack_bb_bucket |-> <<"4","0","+">>, vs_situation |-> <<"u","n","o","p","e","n","e","d">>,
     hand_class |-> s_strong_pair,
     action |-> <<"O","p","e","n">>, size |-> <<"2",".","2","b","b">>],
    [position |-> <<"C","O">>, stack_bb_bucket |-> <<"<","1","0">>, vs_situation |-> <<"u","n","o","p","e","n","e","d">>,
     hand_class |-> s_small_pair,
     action |-> <<"J","a","m">>, size |-> <<"J","a","m">>],
    [position |-> <<"C","O">>, stack_bb_bucket |-> <<"2","0","-","4","0">>, vs_situation |-> <<"v","s","_","o","p","e","n">>,
     hand_class |-> s_premium,
     action |-> <<"R","a","i","s","e">>, size |-> <<"6","b","b">>],
    [position |-> <<"U","T","G">>, stack_bb_bucket |-> <<"2","0","-","4","0">>, vs_situation |-> <<"u","n","o","p","e","n","e","d">>,
     hand_class |-> s_suited_connector,
     action |-> <<"O","p","e","n">>, size |-> <<"3","b","b">>],
    [position |-> <<"B","T","N">>, stack_bb_bucket |-> <<"2","0","-","4","0">>, vs_situation |-> <<"v","s","_","m","i","n","r","a","i","s","e">>,
     hand_class |-> s_premium,
     action |-> <<"R","a","i","s","e">>, size |-> <<"5","b","b">>],
    [position |-> <<"B","T","N">>, stack_bb_bucket |-> <<"4","0","+">>, vs_situation |-> <<"u","n","o","p","e","n","e","d">>,
     hand_class |-> s_premium,
     action |-> <<"O","p","e","n">>, size |-> <<"1",".","5","b","b">>],
    [position |-> <<"U","T","G">>, stack_bb_bucket |-> <<"1","0","-","2","0">>, vs_situation |-> <<"u","n","o","p","e","n","e","d">>,
     hand_class |-> s_premium,
     action |-> <<"O","p","e","n">>, size |-> <<"2",".","0","b","b">>],
    [position |-> <<"U","T","G">>, stack_bb_bucket |-> <<"<","1","0">>, vs_situation |-> <<"v","s","_","o","p","e","n">>,
     hand_class |-> s_strong_broadway,
     action |-> <<"F","o","l","d">>, size |-> <<"N","/","A">>]>>

\* A row whose size is not of the form of the example file
UNSIZED_ROWS == <<
    [position |-> <<"C","O">>, stack_bb_bucket |-> <<"4","0","+">>, vs_situation |-> <<"u","n","o","p","e","n","e","d">>,
     hand_class |-> s_premium,
     action |-> <<"O","p","e","n">>, size |-> <<"p","o","t">>]>>

\* Rows that repeat a key of EXAMPLE_ROWS
DUPLICATE_ROWS == <<
    [position |-> <<"B","T","N">>, stack_bb_bucket |-> <<"1","0","-","2","0">>, vs_situation |-> <<"u","n","o","p","e","n","e","d">>,
     hand_class |-> s_premium,
     action |-> <<"O","p","e","n">>, size |-> <<"2",".","5","b","b">>],
    [position |-> <<"C","O">>, stack_bb_bucket |-> <<"<","1","0">>, vs_situation |-> <<"u","n","o","p","e","n","e","d">>,
     hand_class |-> s_small_pair,
     action |-> <<"J","a","m">>, size |-> <<"J","a","m">>],
    [position |-> <<"U","T","G">>, stack_bb_bucket |-> <<"4","0","+">>, vs_situation |-> <<"u","n","o","p","e","n","e","d">>,
     hand_class |-> s_strong_pair,
     action |-> <<"O","p","e","n">>, size |-> <<"3","b","b">>]>>

\* How many of DUPLICATE_ROWS a source may carry
MaxDuplicates == 1

\* Callers of get_range_table that may run at the same time
NumCallers == 2

\* Players remaining, as a bare count
MaxPlayers == 25

MISSING_FILE == [exists |-> FALSE, rows |-> <<>>]

\* The CSV sources: no file, a header without rows, the example table, and the
\* example table followed by a row of another size format and rows that repeat
\* a key
Sources ==
    {MISSING_FILE, [exists |-> TRUE, rows |-> <<>>], [exists |-> TRUE, rows |-> EXAMPLE_ROWS]}
    \cup {[exists |-> TRUE,
           rows |-> EXAMPLE_ROWS \o UNSIZED_ROWS \o SubSeq(DUPLICATE_ROWS, 1, d)] :
             d \in 1..(IF MaxDuplicates < Len(DUPLICATE_ROWS)
                       THEN MaxDuplicates ELSE Len(DUPLICATE_ROWS))}

Positions == {<<"B","T","N">>, <<"C","O">>, <<"U","T","G">>}

Hands == {<<"A","K","s">>, <<"K","Q","o">>, <<"Q","K","o">>, <<"7","7">>, <<"2","2">>, <<"9","8","s">>, <<>>}

\* effective_bb in tenths of a big blind: 0, 8, 10, 11.5, 12, 20 and 40 bb
Stacks == {0, 8 * BB, 10 * BB, 10 * BB + 15, 12 * BB, 20 * BB, 40 * BB}

Openers == {PyNone, PyStr(<<>>), PyStr(<<" ">>), PyStr(<<"H","J"," ","o","p","e","n","s"," ","2",".","2","b","b">>), PyStr(<<"U","T","G"," ","R","A","I","S","E","S">>), PyStr(<<"l","i","m","p">>)}

HandStates ==
    [hero_hand : Hands, position : Positions, effective_bb : Stacks, opener : Openers]

\* Tournament metadata given to recommend_preflop
Metas ==
    { <<>>,
      ("players_left" :> PyStr(<<"2","0","/","2","8">>)) @@ ("places_paid" :> PyInt(27)),
      ("players_left" :> PyInt(30)) @@ ("places_paid" :> PyInt(27)),
      ("players_left" :> PyStr(<<"4","0","/","1","0","0">>)) @@ ("places_paid" :> PyInt(27)),
      ("table_type" :> PyStr(<<"6","-","m","a","x">>)),
      ("bubble_protection" :> PyBool(TRUE)) @@ ("is_pko" :> PyBool(TRUE)),
      ("players_left" :> PyInt(30)) @@ ("places_paid" :> PyInt(27))
          @@ ("reentry" :> PyStr(<<"M","u","l","t","i">>)),
      ("players_left" :> PyStr(<<"a","b","c">>)) @@ ("places_paid" :> PyInt(27))
          @@ ("is_pko" :> PyBool(TRUE)),
      ("players_left" :> PyInt(25)) @@ ("is_pko" :> PyBool(FALSE))
          @@ ("reentry" :> PyStr(<<"N","o","n","e">>)) @@ ("bubble_protection" :> PyBool(FALSE))
          @@ ("table_type" :> PyStr(<<"9","-","m","a","x">>)) }

(***************************************************************************)
(* The engine in one process, one call at a time                           *)
(***************************************************************************)
NO_INPUT == [t |-> "none"]

Init ==
    /\ source \in Sources
    /\ _RANGE_TABLE = PyNone
    /\ loads = 0
    /\ io = 0
    /\ pc = "idle"
    /\ state = NO_INPUT
    /\ meta = NO_INPUT
    /\ result = NO_INPUT
    /\ callers = [c \in 1..NumCallers |-> [pc |-> "idle", df |-> PyNone]]
    /\ session = NEW_SESSION
    /\ ui = NEW_UI

\* One whole call recommend_preflop(st, m), get_range_table() included
Run(st, m) ==
    LET g == get_range_table(_RANGE_TABLE, source, loads)
    IN  /\ _RANGE_TABLE' = table_after_recommend(g.cache, st, m)
        /\ loads' = g.loads
        /\ io' = g.io
        /\ result' = IF g.raised THEN Raise("FileNotFoundError")
                     ELSE recommend_preflop(g.cache.rows, st, m)
        /\ state' = st
        /\ meta' = m
        /\ UNCHANGED <<source, callers, session, ui>>

\* The review layer calls recommend_preflop for a new decision point
Call ==
    /\ pc = "idle"
    /\ \E st \in HandStates, m \in Metas : Run(st, m)
    /\ pc' = "done"

\* The same call is made again with identical inputs
Repeat ==
    /\ pc \in {"done", "again"}
    /\ Run(state, meta)
    /\ pc' = "again"

\* The caller takes the result and goes on to another decision point
Finish ==
    /\ pc \in {"done", "again"}
    /\ pc' = "idle"
    /\ state' = NO_INPUT
    /\ meta' = NO_INPUT
    /\ result' = NO_INPUT
    /\ UNCHANGED <<source, _RANGE_TABLE, loads, io, callers, session, ui>>

Next == Call \/ Repeat \/ Finish

Spec == Init /\ [][Next]_vars

(***************************************************************************)
(* get_range_table under concurrent callers (one Streamlit script thread   *)
(* per session, all sharing the module global _RANGE_TABLE).  A thread     *)
(* switch can fall between the test of the global, the call of             *)
(* load_ranges, the assignment and the return.                             *)
(***************************************************************************)
At(c, label) == callers[c].pc = label

Goto(c, label, df) == callers' = [callers EXCEPT ![c] = [pc |-> label, df |-> df]]

\* Caller c enters get_range_table
Enter(c) ==
    /\ At(c, "idle")
    /\ Goto(c, "test", PyNone)
    /\ UNCHANGED <<source, _RANGE_TABLE, loads, io, pc, state, meta, result,
                   session, ui>>

\* line 65: if _RANGE_TABLE is None
Test(c) ==
    /\ At(c, "test")
    /\ Goto(c, IF _RANGE_TABLE = PyNone THEN "load" ELSE "return", PyNone)
    /\ UNCHANGED <<source, _RANGE_TABLE, loads, io, pc, state, meta, result,
                   session, ui>>

\* line 66, right-hand side: load_ranges() builds a new DataFrame or raises
Load(c) ==
    /\ At(c, "load")
    /\ IF load_ranges(source).raised
       THEN /\ Goto(c, "idle", [t |-> "raised"])
            /\ loads' = loads
       ELSE /\ Goto(c, "store", [t |-> "DataFrame", id |-> loads + 1,
                                 rows |-> load_ranges(source).df])
            /\ loads' = loads + 1
    /\ UNCHANGED <<source, _RANGE_TABLE, io, pc, state, meta, result, session, ui>>

\* line 66, assignment to the global
Store(c) ==
    /\ At(c, "store")
    /\ _RANGE_TABLE' = callers[c].df
    /\ Goto(c, "return", PyNone)
    /\ UNCHANGED <<source, loads, io, pc, state, meta, result, session, ui>>

\* line 67: return _RANGE_TABLE
ReturnTable(c) ==
    /\ At(c, "return")
    /\ Goto(c, "idle", _RANGE_TABLE)
    /\ UNCHANGED <<source, _RANGE_TABLE, loads, io, pc, state, meta, result,
                   session, ui>>

NextConc ==
    \E c \in 1..NumCallers : Enter(c) \/ Test(c) \/ Load(c) \/ Store(c) \/ ReturnTable(c)

SpecConc == Init /\ [][NextConc]_vars

(***************************************************************************)
(* compute_icm_pressure on its own, over a product of metadata mappings    *)
(***************************************************************************)
ABSENT == [t |-> "absent"]

META_KEYS == {"players_left", "places_paid", "reentry", "bubble_protection",
              "bounty_flag", "is_pko", "table_type"}

\* The dict that holds the keys whose value is given
Dict(full) == [k \in {k \in DOMAIN full : full[k] # ABSENT} |-> full[k]]

PlayersLeftValues ==
    {ABSENT, PyNone, PyStr(<<"2","0","/","2","8">>), PyStr(<<"5","/","2","8">>), PyStr(<<"a","b","c">>), PyStr(<<"1","7">>),
     PyStr(<<"2","0","/","4","0">>)}
    \cup {PyInt(n) : n \in 0..MaxPlayers}

PlacesPaidValues == {ABSENT, PyNone, PyInt(0), PyInt(5), PyInt(27), PyStr(<<"2","7">>), PyStr(<<"x">>)}

ReentryValues == {ABSENT, PyStr(<<"N","o","n","e">>), PyStr(<<"M","u","l","t","i">>), PyStr(<<"U","n","l","i","m","i","t","e","d">>)}

FlagValues == {ABSENT, PyBool(TRUE), PyBool(FALSE)}

TableTypeValues == {ABSENT, PyStr(<<"6","-","m","a","x">>), PyStr(<<"7","-","m","a","x">>), PyStr(<<"9","-","m","a","x">>)}

PressureMetas ==
    {Dict([players_left |-> pl, places_paid |-> pp, reentry |-> re,
           bubble_protection |-> bp, bounty_flag |-> ABSENT, is_pko |-> pko,
           table_type |-> tt]) :
        pl \in PlayersLeftValues, pp \in PlacesPaidValues, re \in ReentryValues,
        bp \in FlagValues, pko \in FlagValues, tt \in TableTypeValues}
    \cup {("bounty_flag" :> PyStr(<<"P","K","O">>)), ("bounty_flag" :> PyStr(<<"P","K","O">>)) @@ ("is_pko" :> PyBool(TRUE)),
          ("buy_in" :> PyInt(10)), ("buy_in" :> PyInt(10)) @@ ("blind_interval" :> PyInt(5))}

InitPressure ==
    /\ source = MISSING_FILE
    /\ _RANGE_TABLE = PyNone
    /\ loads = 0
    /\ io = 0
    /\ pc = "idle"
    /\ state = NO_INPUT
    /\ meta \in PressureMetas
    /\ result = NO_INPUT
    /\ callers = [c \in 1..NumCallers |-> [pc |-> "idle", df |-> PyNone]]
    /\ session = NEW_SESSION
    /\ ui = NEW_UI

\* pressure = compute_icm_pressure(meta)
Pressure ==
    /\ pc = "idle"
    /\ result' = pressure_outcome(meta)
    /\ pc' = "done"
    /\ UNCHANGED <<source, _RANGE_TABLE, loads, io, state, meta, callers, session, ui>>

SpecPressure == InitPressure /\ [][Pressure]_vars

(***************************************************************************)
(* hand_class on its own, over every two-rank descriptor                   *)
(***************************************************************************)
RANKS == {"A","K","Q","J","T","9","8","7","6","5","4","3","2"}

\* "XY", "XYo" and "XYs" for all ranks X and Y, the empty descriptor and a
\* single rank
AllHands ==
    {<<x, y>> \o suffix : x \in RANKS, y \in RANKS, suffix \in {<<>>, <<"o">>, <<"s">>}}
    \cup {<<>>, <<"A">>}

InitHand ==
    /\ source = MISSING_FILE
    /\ _RANGE_TABLE = PyNone
    /\ loads = 0
    /\ io = 0
    /\ pc = "idle"
    /\ state \in [hero_hand : AllHands, position : {<<"B","T","N">>}, effective_bb : {12 * BB},
                  opener : {PyNone}]
    /\ meta = NO_INPUT
    /\ result = NO_INPUT
    /\ callers = [c \in 1..NumCallers |-> [pc |-> "idle", df |-> PyNone]]
    /\ session = NEW_SESSION
    /\ ui = NEW_UI

\* h_class = hand_class(state.hero_hand)
Classify ==
    /\ pc = "idle"
    /\ result' = PyStr(hand_class(state.hero_hand))
    /\ pc' = "done"
    /\ UNCHANGED <<source, _RANGE_TABLE, loads, io, state, meta, callers, session, ui>>

SpecHand == InitHand /\ [][Classify]_vars

(***************************************************************************)
(* The lookup key on its own, over every stack depth in tenths of a big    *)
(* blind and a set of opener descriptions                                  *)
(***************************************************************************)
\* The deepest stack, in tenths of a big blind
MaxStackTenths == 450

KeyOpeners ==
    {PyNone, PyStr(<<>>), PyStr(<<" ">>), PyStr(<<" "," "," ">>),
     PyStr(<<"o","p","e","n">>), PyStr(<<"O","P","E","N">>), PyStr(<<"o","P","e","N","s">>),
     PyStr(<<"R","a","i","s","e">>), PyStr(<<"U","T","G"," ","R","A","I","S","E","S">>),
     PyStr(<<"H","J"," ","o","p","e","n","s"," ","2",".","2","b","b">>),
     PyStr(<<"l","i","m","p">>), PyStr(<<" ","c","a","l","l"," ">>),
     PyStr(<<"r","a","i","s">>), PyStr(<<"o","p"," ","e","n">>)}

InitKey ==
    /\ source = MISSING_FILE
    /\ _RANGE_TABLE = PyNone
    /\ loads = 0
    /\ io = 0
    /\ pc = "idle"
    /\ state \in [hero_hand : {<<"A","K","s">>}, position : {<<"B","T","N">>},
                  effective_bb : 0..MaxStackTenths, opener : KeyOpeners]
    /\ meta = NO_INPUT
    /\ result = NO_INPUT
    /\ callers = [c \in 1..NumCallers |-> [pc |-> "idle", df |-> PyNone]]
    /\ session = NEW_SESSION
    /\ ui = NEW_UI

\* key = (state.position, bucket, vs_situation, h_class)
DeriveKey ==
    /\ pc = "idle"
    /\ result' = lookup_key(state)
    /\ pc' = "done"
    /\ UNCHANGED <<source, _RANGE_TABLE, loads, io, state, meta, callers, session, ui>>

SpecKey == InitKey /\ [][DeriveKey]_vars

(***************************************************************************)
(* A study session on its own: hands are added and actions recorded in any *)
(* order                                                                   *)
(***************************************************************************)
\* add_hand calls made in one session
MaxAdds == 4

SessionStates ==
    {[hero_hand |-> <<"A","K","s">>, position |-> <<"B","T","N">>, effective_bb |-> 10 * BB,
      opener |-> PyStr(<<>>)],
     [hero_hand |-> <<"7","7">>, position |-> <<"C","O">>, effective_bb |-> 8 * BB,
      opener |-> PyStr(<<"U","T","G"," ","R","A","I","S","E","S">>)],
     [hero_hand |-> <<"A","K","s">>, position |-> <<"B","T","N">>, effective_bb |-> 12 * BB,
      opener |-> PyStr(<<>>)]}

\* The ids a caller may pass to record_action: those add_hand can return and
\* one it never returns
SessionIds == {to_json(st) : st \in SessionStates} \cup {<<"json">>}

LoggedActions == {<<"j","a","m">>, <<"f","o","l","d">>}

InitSession ==
    /\ source = MISSING_FILE
    /\ _RANGE_TABLE = PyNone
    /\ loads = 0
    /\ io = 0
    /\ pc = "idle"
    /\ state = NO_INPUT
    /\ meta = NO_INPUT
    /\ result = NO_INPUT
    /\ callers = [c \in 1..NumCallers |-> [pc |-> "idle", df |-> PyNone]]
    /\ session = NEW_SESSION
    /\ ui = NEW_UI

\* hand_id = session.add_hand(state)
AddHand ==
    /\ session.adds < MaxAdds
    /\ \E st \in SessionStates : session' = add_hand(session, st)
    /\ UNCHANGED <<source, _RANGE_TABLE, loads, io, pc, state, meta, result, callers, ui>>

\* session.record_action(hand_id, action)
RecordAction ==
    /\ \E hand_id \in SessionIds, action \in LoggedActions :
          session' = record_action(session, hand_id, action)
    /\ UNCHANGED <<source, _RANGE_TABLE, loads, io, pc, state, meta, result, callers, ui>>

NextSession == AddHand \/ RecordAction

SpecSession == InitSession /\ [][NextSession]_vars

(***************************************************************************)
(* The quiz pages: the page of streamlit_app.py over the list of hands of  *)
(* the session state and the page of preprocess.py over the hands of the   *)
(* StudySession.  Hands are added and the pages run in any order.          *)
(***************************************************************************)
\* Hands the Analyse page appends in one browser session
MaxHands == 3

QuizStates ==
    {[hero_hand |-> <<"A","K","s">>, position |-> <<"B","T","N">>, effective_bb |-> 10 * BB,
      opener |-> PyStr(<<>>)],
     [hero_hand |-> <<"7","7">>, position |-> <<"C","O">>, effective_bb |-> 8 * BB,
      opener |-> PyStr(<<"U","T","G"," ","R","A","I","S","E","S">>)]}

\* render_analyse_page: hands.append({...}) with the action not yet logged
AnalyseHand ==
    /\ Len(ui.hands) < MaxHands
    /\ \E st \in QuizStates :
          ui' = [ui EXCEPT !.hands = Append(@, [state |-> st,
                                                analysis |-> general_concept_analysis(st),
                                                action |-> PyNone]),
                           !.event = "analyse"]
    /\ UNCHANGED <<source, _RANGE_TABLE, loads, io, pc, state, meta, result, callers,
                   session>>

\* streamlit_app.render_quiz_page runs and the button is not pressed
ShowQuiz ==
    /\ ui' = [ui EXCEPT !.quiz_idx = quiz_page(ui.quiz_idx, Len(ui.hands), FALSE).quiz_idx,
                        !.raised = quiz_page(ui.quiz_idx, Len(ui.hands), FALSE).raised,
                        !.event = "show"]
    /\ UNCHANGED <<source, _RANGE_TABLE, loads, io, pc, state, meta, result, callers,
                   session>>

\* streamlit_app.render_quiz_page runs with "Reveal & Next" pressed; the button
\* is on the page only when the last run got past the test of the hands
RevealNext ==
    /\ Len(ui.hands) > 0
    /\ ui.quiz_idx # PyNone
    /\ ui' = [ui EXCEPT !.quiz_idx = quiz_page(ui.quiz_idx, Len(ui.hands), TRUE).quiz_idx,
                        !.raised = quiz_page(ui.quiz_idx, Len(ui.hands), TRUE).raised,
                        !.event = "reveal"]
    /\ UNCHANGED <<source, _RANGE_TABLE, loads, io, pc, state, meta, result, callers,
                   session>>

\* preprocess.render_quiz_page runs over list(session.hands.items())
ShowSessionQuiz ==
    /\ ui' = [ui EXCEPT !.quiz_index = quiz_page(ui.quiz_index, Len(session.order), FALSE).quiz_idx,
                        !.raised = quiz_page(ui.quiz_index, Len(session.order), FALSE).raised,
                        !.event = "session show"]
    /\ UNCHANGED <<source, _RANGE_TABLE, loads, io, pc, state, meta, result, callers,
                   session>>

\* preprocess.render_quiz_page runs with "Reveal & Next" pressed
SessionRevealNext ==
    /\ Len(session.order) > 0
    /\ ui.quiz_index # PyNone
    /\ ui' = [ui EXCEPT !.quiz_index = quiz_page(ui.quiz_index, Len(session.order), TRUE).quiz_idx,
                        !.raised = quiz_page(ui.quiz_index, Len(session.order), TRUE).raised,
                        !.event = "session reveal"]
    /\ UNCHANGED <<source, _RANGE_TABLE, loads, io, pc, state, meta, result, callers,
                   session>>

NextQuiz ==
    AnalyseHand \/ ShowQuiz \/ RevealNext \/ AddHand \/ ShowSessionQuiz \/ SessionRevealNext

SpecQuiz == InitSession /\ [][NextQuiz]_vars

(***************************************************************************)
(* Properties                                                              *)
(***************************************************************************)
\* A call of recommend_preflop has returned or raised
Called == pc \in {"done", "again"}

\* The key (position, stack bucket, facing situation, hand class) derived from
\* a hand state
DerivedKey(st) ==
    <<PyStr(st.position), PyStr(compute_stack_bucket(st.effective_bb)),
      PyStr(vs_situation_of(st.opener)), PyStr(hand_class(st.hero_hand))>>

\* The rows of the cached table whose key is the derived key of the call
KeyRows ==
    IF _RANGE_TABLE = PyNone THEN {}
    ELSE LET key == DerivedKey(state)
         IN  {i \in 1..Len(_RANGE_TABLE.rows) : Index(_RANGE_TABLE.rows[i]) = key}

\* The call matched exactly one row of the table
MatchedOnce == Called /\ Cardinality(KeyRows) = 1

\* That row, as the table holds it
RawRow == _RANGE_TABLE.rows[CHOOSE i \in KeyRows : TRUE]

\* The rationale is the table-match note and nothing else
OnlyMatchNote(note) == Len(note) = 1 /\ DOMAIN note[1] = {"lookup"}

Pressure_gt_1_1 == Gt(compute_icm_pressure(meta), Frac(11, 10))

\* players_left and places_paid are the only keys, both parse, and players
\* remaining minus paid places is negative
NegativeDistanceOnly(m) ==
    /\ DOMAIN m = {"players_left", "places_paid"}
    /\ ~players_left_of(m["players_left"]).raised
    /\ ~players_left_of(m["players_left"]).none
    /\ PyIntOf(m["places_paid"]).ok
    /\ players_left_of(m["players_left"]).n < PyIntOf(m["places_paid"]).n

\* C1: a matched (Jam, Jam) row under metadata whose only signal is a negative
\* bubble distance (players_left "20/28", places_paid 27) is returned
\* unchanged: action "Jam", size "Jam", rationale the table-match note alone.
C1_JamUnchangedPastBubble ==
    (MatchedOnce /\ RawRow.action = PyStr(s_Jam) /\ RawRow.size = PyStr(s_Jam)
        /\ NegativeDistanceOnly(meta))
    => (/\ result.kind = "return"
        /\ result.action = PyStr(s_Jam)
        /\ result.size = PyStr(s_Jam)
        /\ OnlyMatchNote(result.note))

\* The metadata without its bubble fields
WithoutBubble(m) == [k \in DOMAIN m \ {"players_left", "places_paid"} |-> m[k]]

\* The bubble distance of the metadata is missing, undefined or negative
DistanceMissingOrNegative(m) ==
    \/ players_left_of(Get(m, "players_left", PyNone)).raised
    \/ players_left_of(Get(m, "players_left", PyNone)).none
    \/ ~PyIntOf(Get(m, "places_paid", PyNone)).ok
    \/ players_left_of(Get(m, "players_left", PyNone)).n
          < PyIntOf(Get(m, "places_paid", PyNone)).n

\* C2: a bubble distance that is missing, undefined or negative contributes no
\* multiplier: the pressure equals the pressure of the same metadata with the
\* bubble fields removed.
C2_NegativeDistanceNeutral ==
    (pc = "done" /\ DistanceMissingOrNegative(meta))
    => result = compute_icm_pressure(WithoutBubble(meta))

\* C3: calling recommend again with identical inputs yields the identical
\* (action, size, rationale), however often the call is repeated.
C3_RepeatedCallSameResult ==
    [][(Called /\ pc' = "again" /\ state' = state /\ meta' = meta)
        => result' = result]_vars

\* C3 witness: a repeated call whose result carries an adjustment
C3_Witness ==
    /\ pc = "again"
    /\ result.kind = "return"
    /\ Len(result.note) = 2
    /\ result.action # RawRow.action

\* C4: with concurrent callers on an empty cache exactly one caller performs
\* the load; no second caller loads or overwrites the cache.
C4_SingleLoader == loads <= 1

\* C5: in a sequence of calls the table is loaded at most once; once the cache
\* is set every later call leaves the same instance in it and loads nothing.
C5_LoadedAtMostOnce ==
    /\ [](loads <= 1)
    /\ [][_RANGE_TABLE # PyNone
            => (_RANGE_TABLE' = _RANGE_TABLE /\ loads' = loads
                /\ (pc' # "idle" => io' = 0))]_vars

\* C5 witness: a later call served from the cache after the one load
C5_Witness ==
    /\ pc = "again"
    /\ io = 0
    /\ loads = 1
    /\ _RANGE_TABLE # PyNone
    /\ result.kind = "return"

\* Two rows of the source carry the same key
HasDuplicateKeys(src) ==
    \E i, j \in 1..Len(src.rows) :
        /\ i # j
        /\ Index(src.rows[i]) = Index(src.rows[j])

\* C6: a source with two rows of the same key is rejected at load time, so no
\* table is ever produced from it.
C6_DuplicateKeysRejected == HasDuplicateKeys(source) => _RANGE_TABLE = PyNone

\* The descriptor with its two ranks exchanged, the marker kept
SwapRanks(hand) ==
    IF Len(hand) >= 2 THEN <<hand[2], hand[1]>> \o SubSeq(hand, 3, Len(hand)) ELSE hand

\* C7: hand_class gives the same category for XY and YX, with any marker.
C7_HandClassSymmetric ==
    pc = "done" => result = PyStr(hand_class(SwapRanks(state.hero_hand)))

\* The result is ("Unknown", "N/A", narrative) with a non-empty narrative
IsUnknown(r, st) ==
    /\ r.kind = "return"
    /\ r.action = PyStr(s_Unknown)
    /\ r.size = PyStr(s_NA)
    /\ r.note = general_concept_analysis(st)
    /\ Len(r.note) > 0

\* C8: with the table loaded, recommend returns ("Unknown", "N/A", narrative)
\* exactly when the derived key has no exact match in the table; a miss is
\* never an error.
C8_UnknownIffNoExactMatch ==
    (Called /\ _RANGE_TABLE # PyNone)
    => (IsUnknown(result, state) <=> KeyRows = {})

\* C8 witness: a miss on a table that holds a row differing from the key in
\* the facing situation only
C8_Witness ==
    /\ Called
    /\ _RANGE_TABLE # PyNone
    /\ KeyRows = {}
    /\ IsUnknown(result, state)
    /\ \E i \in 1..Len(_RANGE_TABLE.rows) :
          /\ Index(_RANGE_TABLE.rows[i])[1] = DerivedKey(state)[1]
          /\ Index(_RANGE_TABLE.rows[i])[2] = DerivedKey(state)[2]
          /\ Index(_RANGE_TABLE.rows[i])[4] = DerivedKey(state)[4]

NumericBB(cell) ==
    /\ cell.t = "str"
    /\ EndsWith(cell.s, s_bb)
    /\ ParseFloat(RStrip(cell.s, {"b"})).ok

\* v of a cell "<v>bb", in tenths of a big blind
TenthsOf(cell) == ParseFloat(RStrip(cell.s, {"b"})).tenths

\* The str is "<digits>.<digit>bb"
OneDecimalBB(s) ==
    /\ EndsWith(s, s_bb)
    /\ Len(s) >= 5
    /\ s[Len(s) - 3] = "."
    /\ IsDigits(SubSeq(s, 1, Len(s) - 4))
    /\ IsDigits(<<s[Len(s) - 2]>>)

\* C10: a matched "Open" row of numeric size v bb under pressure > 1.1 is
\* returned as "Open" with size max(2.0, v - 0.3) bb written with one decimal,
\* never below "2.0bb".
C10_OpenSizeReducedWithFloor ==
    (MatchedOnce /\ RawRow.action = PyStr(s_Open) /\ NumericBB(RawRow.size)
        /\ Pressure_gt_1_1)
    => (/\ result.kind = "return"
        /\ result.action = PyStr(s_Open)
        /\ result.size.t = "str"
        /\ OneDecimalBB(result.size.s)
        /\ TenthsOf(result.size) >= 20
        /\ TenthsOf(result.size) = (IF TenthsOf(RawRow.size) - 3 >= 20
                                    THEN TenthsOf(RawRow.size) - 3 ELSE 20))

\* C10 witness: an Open row whose reduced size is held at the floor
C10_Witness ==
    /\ MatchedOnce
    /\ RawRow.action = PyStr(s_Open)
    /\ NumericBB(RawRow.size)
    /\ TenthsOf(RawRow.size) - 3 < 20
    /\ Pressure_gt_1_1
    /\ result.kind = "return"
    /\ result.size = PyStr(<<"2",".","0","b","b">>)

Pressure_lt_0_95 == Lt(compute_icm_pressure(meta), Frac(95, 100))

\* The note is the table-match note followed by one adjustment note
MatchNoteThen(note, extra) ==
    /\ Len(note) = 2
    /\ DOMAIN note[1] = {"lookup"}
    /\ note[2] = extra

Pressure_in_band == ~Pressure_gt_1_1 /\ ~Pressure_lt_0_95

IsCount(v) ==
    \/ v.t = "int" /\ v.n >= 0
    \/ v.t = "str" /\ Len(v.s) > 0 /\ IsDigits(v.s)
    \/ /\ v.t = "str"
       /\ \E i \in 2..(Len(v.s) - 1) :
             /\ v.s[i] = "/"
             /\ IsDigits(SubSeq(v.s, 1, i - 1))
             /\ IsDigits(SubSeq(v.s, i + 1, Len(v.s)))

CountOf(v) ==
    IF v.t = "int" THEN v.n
    ELSE IF IsDigits(v.s) THEN NatVal(v.s)
    ELSE NatVal(SubSeq(v.s, 1, (CHOOSE i \in 1..Len(v.s) : v.s[i] = "/") - 1))

\* The metadata states players remaining and a count of paid places > 0, and
\* the distance between them is not negative
DistanceDefined(m) ==
    /\ "players_left" \in DOMAIN m
    /\ "places_paid" \in DOMAIN m
    /\ IsCount(m["players_left"])
    /\ IsCount(m["places_paid"])
    /\ CountOf(m["places_paid"]) > 0
    /\ CountOf(m["players_left"]) >= CountOf(m["places_paid"])

\* The bubble factor of the bands: d <= 6, 6 < d <= 18, d > 18
BandFactor(d) ==
    IF d <= 6 THEN Frac(12, 10)
    ELSE IF d <= 18 THEN Frac(11, 10)
    ELSE Frac(1, 1)

\* C14: with paid places > 0 and a distance d >= 0 the bubble factor is x1.20
\* for d <= 6, x1.10 for 6 < d <= 18 and x1.00 for d > 18; of a string "X/Y"
\* only X counts, so the pressure is that of the bare count X.
C14_BubbleBands ==
    (pc = "done" /\ DistanceDefined(meta))
    => (/\ result = Mul(compute_icm_pressure(WithoutBubble(meta)),
                        BandFactor(CountOf(meta["players_left"])
                                   - CountOf(meta["places_paid"])))
        /\ result = compute_icm_pressure(
                        [meta EXCEPT !["players_left"] =
                            PyInt(CountOf(meta["players_left"]))]))

\* C14 witness: "20/40" with 5 paid places, a distance of 15 in the x1.10 band
C14_Witness ==
    /\ pc = "done"
    /\ DOMAIN meta = {"players_left", "places_paid"}
    /\ meta["players_left"] = PyStr(<<"2","0","/","4","0">>)
    /\ meta["places_paid"] = PyInt(5)
    /\ result = Frac(11, 10)

\* The signals of the metadata, as the caller states them
ReentrySignal(m) ==
    /\ "reentry" \in DOMAIN m
    /\ m["reentry"].t = "str"
    /\ \/ Contains(Lower(m["reentry"].s), s_multi)
       \/ Contains(Lower(m["reentry"].s), s_unlimited)

ProtectionSignal(m) == "bubble_protection" \in DOMAIN m /\ Truthy(m["bubble_protection"])

BountySignal(m) ==
    \/ "bounty_flag" \in DOMAIN m /\ Truthy(m["bounty_flag"])
    \/ "is_pko" \in DOMAIN m /\ Truthy(m["is_pko"])

\* The table size the metadata names: "6", "7" or ""
TableSize(m) ==
    IF "table_type" \in DOMAIN m /\ m["table_type"].t = "str"
         /\ Len(Strip(m["table_type"].s)) > 0
         /\ Strip(m["table_type"].s)[1] \in {"6", "7"}
    THEN Strip(m["table_type"].s)[1]
    ELSE ""

\* The multiplier of each signal, x1.00 when the signal does not hold
BubbleMultiplier(m) ==
    IF DistanceDefined(m)
    THEN BandFactor(CountOf(m["players_left"]) - CountOf(m["places_paid"]))
    ELSE Frac(1, 1)

ReentryMultiplier(m) == IF ReentrySignal(m) THEN Frac(90, 100) ELSE Frac(1, 1)

ProtectionMultiplier(m) == IF ProtectionSignal(m) THEN Frac(95, 100) ELSE Frac(1, 1)

BountyMultiplier(m) == IF BountySignal(m) THEN Frac(95, 100) ELSE Frac(1, 1)

TableMultiplier(m) ==
    IF TableSize(m) = "6" THEN Frac(95, 100)
    ELSE IF TableSize(m) = "7" THEN Frac(98, 100)
    ELSE Frac(1, 1)

\* The product of the multipliers other than the bubble band, taken from the
\* table size back to the re-entry
OtherMultipliers(m) ==
    Mul(Mul(Mul(TableMultiplier(m), BountyMultiplier(m)), ProtectionMultiplier(m)),
        ReentryMultiplier(m))

\* C15: the pressure is the product of the multipliers of the signals that
\* hold, each counted once, whatever the combination of signals and in
\* whatever order the factors are multiplied.
C15_ProductOfMultipliers ==
    pc = "done" => result = Mul(OtherMultipliers(meta), BubbleMultiplier(meta))

\* C16: pressure({}) = 1.0, a mapping without any recognised key yields
\* exactly 1.0, and a missing players_left or places_paid leaves the pressure
\* to the other signals alone.
C16_AbsentKeysNeutral ==
    pc = "done"
    => (/\ DOMAIN meta \cap META_KEYS = {} => result = Frac(1, 1)
        /\ ("players_left" \notin DOMAIN meta \/ "places_paid" \notin DOMAIN meta)
              => result = OtherMultipliers(meta))

\* C16 witness: a mapping that holds an unrecognised key only
C16_Witness ==
    /\ pc = "done"
    /\ DOMAIN meta = {"buy_in"}
    /\ result = Frac(1, 1)

\* The value is a coefficient, strictly greater than 0
IsCoefficient(r) ==
    /\ DOMAIN r = {"num", "den"}
    /\ r.num > 0
    /\ r.den > 0

\* C17: pressure(metadata) never raises and returns a value > 0, for every
\* metadata mapping, malformed, wrongly typed and None fields included.
C17_PressureNeverRaises == pc = "done" => IsCoefficient(result)

\* players_left or places_paid is given but is no count
BubbleFieldMalformed(m) ==
    \/ "players_left" \in DOMAIN m /\ ~IsCount(m["players_left"])
    \/ "places_paid" \in DOMAIN m /\ ~IsCount(m["places_paid"])

\* C17 witness: a call with players_left "abc" and places_paid None
C17_Witness ==
    /\ pc = "done"
    /\ "players_left" \in DOMAIN meta
    /\ "places_paid" \in DOMAIN meta
    /\ meta["players_left"] = PyStr(<<"a","b","c">>)
    /\ meta["places_paid"] = PyNone
    /\ IsCoefficient(result)

\* C18: when players_left or places_paid cannot be parsed the pressure is
\* that of the same metadata without the bubble fields, and the re-entry,
\* bubble-protection, bounty and table-size factors are applied all the same.
C18_MalformedFieldDegrades ==
    (pc = "done" /\ BubbleFieldMalformed(meta))
    => (/\ result = compute_icm_pressure(WithoutBubble(meta))
        /\ result = OtherMultipliers(meta))

\* C18 witness: places_paid "x" beside three signals that still count
C18_Witness ==
    /\ pc = "done"
    /\ "places_paid" \in DOMAIN meta
    /\ meta["places_paid"] = PyStr(<<"x">>)
    /\ "players_left" \in DOMAIN meta
    /\ IsCount(meta["players_left"])
    /\ ReentrySignal(meta)
    /\ ProtectionSignal(meta)
    /\ TableSize(meta) = "7"
    /\ result = Mul(Mul(Frac(90, 100), Frac(95, 100)), Frac(98, 100))

\* C19: once the table has loaded, recommend returns a 3-tuple and never
\* raises, whatever the hand state and the metadata.
C19_RecommendNeverRaises ==
    (Called /\ _RANGE_TABLE # PyNone)
    => (/\ result.kind = "return"
        /\ DOMAIN result = {"kind", "action", "size", "note"})

\* C20: when the table load fails the failure reaches the caller of that
\* call, which gets no 3-tuple; load_ranges is tried once in the call, and
\* the cache stays unpopulated.
C20_LoadFailurePropagates ==
    (Called /\ load_ranges(source).raised)
    => (/\ result = Raise("FileNotFoundError")
        /\ io = 1
        /\ loads = 0
        /\ _RANGE_TABLE = PyNone)

\* C20 witness: a second call on a missing source fails as the first did
C20_Witness ==
    /\ pc = "again"
    /\ ~source.exists
    /\ result.kind = "raise"
    /\ io = 1
    /\ _RANGE_TABLE = PyNone

\* The value is a table that holds every row of the source, in file order
CompleteTable(v, src) ==
    /\ v.t = "DataFrame"
    /\ Len(v.rows) = Len(src.rows)
    /\ \A i \in 1..Len(src.rows) :
          /\ DOMAIN v.rows[i] = DOMAIN src.rows[i]
          /\ \A c \in DOMAIN src.rows[i] : v.rows[i][c] = read_cell(src.rows[i][c])

\* C21: no caller ever sees a partially populated table: the shared cache is
\* unset or holds the complete table, and so does every table a caller built
\* or was handed, also while other callers are inside get_range_table.
C21_NeverPartialTable ==
    /\ _RANGE_TABLE = PyNone \/ CompleteTable(_RANGE_TABLE, source)
    /\ \A c \in 1..NumCallers :
          \/ callers[c].df \in {PyNone, [t |-> "raised"]}
          \/ CompleteTable(callers[c].df, source)

\* C21 witness: one caller has been handed the table while another is about
\* to store a table of its own
C21_Witness ==
    \E c, d \in 1..NumCallers :
        /\ callers[c].pc = "idle"
        /\ CompleteTable(callers[c].df, source)
        /\ Len(callers[c].df.rows) > 0
        /\ callers[d].pc = "store"

\* C22: recommend has no side effect but the population of the cache on first
\* use: a loaded table keeps its contents over every call, the table of the
\* first use holds the rows of the source as loaded, and the hand state and
\* the metadata of a call are the same when the call is made again.
C22_NoSideEffects ==
    [][/\ _RANGE_TABLE # PyNone => _RANGE_TABLE' = _RANGE_TABLE
       /\ (_RANGE_TABLE = PyNone /\ _RANGE_TABLE' # PyNone)
             => CompleteTable(_RANGE_TABLE', source)
       /\ (Called /\ pc' = "again") => (state' = state /\ meta' = meta)
       /\ source' = source]_vars

\* C22 witness: a call that loaded the table and loosened a Fold row to a jam,
\* the row still being a Fold in the table
C22_Witness ==
    /\ pc = "done"
    /\ io = 1
    /\ MatchedOnce
    /\ RawRow.action = PyStr(s_Fold)
    /\ result.kind = "return"
    /\ result.action = PyStr(s_Jam)
    /\ CompleteTable(_RANGE_TABLE, source)

ACTION_LABELS == {s_Open, s_Jam, s_Fold, s_Call, s_Raise}

\* A size as the table format writes it: "Jam", "N/A" or "<v>bb"
SizeLabel(s) == s \in {s_Jam, s_NA} \/ NumericBB(PyStr(s))

\* Every row of the CSV has an action of the five labels and a size label
WellFormedTable(src) ==
    /\ src.exists
    /\ \A i \in 1..Len(src.rows) :
          src.rows[i].action \in ACTION_LABELS /\ SizeLabel(src.rows[i].size)

\* C23: for a table whose actions are Open, Jam, Fold, Call or Raise and whose
\* sizes are "Jam", "N/A" or a numeric "<v>bb", every call returns an action of
\* those five or "Unknown" and a size that is "Jam", "N/A" or a numeric "<v>bb".
C23_OutputsWellFormed ==
    (Called /\ WellFormedTable(source))
    => (/\ result.kind = "return"
        /\ result.action.t = "str"
        /\ result.action.s \in ACTION_LABELS \cup {s_Unknown}
        /\ result.size.t = "str"
        /\ SizeLabel(result.size.s))

\* C24: the stack bucket of the key has half-open thresholds, a boundary value
\* falling in the higher bucket: bb < 10 gives "<10", 10 <= bb < 20 "10-20",
\* 20 <= bb < 40 "20-40" and bb >= 40 "40+", for every non-negative depth.
C24_HalfOpenBuckets ==
    pc = "done"
    => (/\ state.effective_bb < 10 * BB => result[2] = PyStr(<<"<","1","0">>)
        /\ (10 * BB <= state.effective_bb /\ state.effective_bb < 20 * BB)
              => result[2] = PyStr(<<"1","0","-","2","0">>)
        /\ (20 * BB <= state.effective_bb /\ state.effective_bb < 40 * BB)
              => result[2] = PyStr(<<"2","0","-","4","0">>)
        /\ state.effective_bb >= 40 * BB => result[2] = PyStr(<<"4","0","+">>))

\* C24 witness: the key of a stack of exactly 20bb carries the bucket "20-40"
C24_Witness ==
    /\ pc = "done"
    /\ state.effective_bb = 20 * BB
    /\ result[2] = PyStr(<<"2","0","-","4","0">>)

\* The two ranks of a descriptor, whatever marker follows them
RanksOf(hand) == IF Len(hand) >= 2 THEN SubSeq(hand, 1, 2) ELSE hand

LISTED_CONNECTORS == {<<"9","8">>, <<"8","7">>, <<"7","6">>, <<"6","5">>, <<"5","4">>}

\* The category the fixed sets give to two ranks, for a set of connectors
ClassBySets(r, connectors) ==
    IF r \in {<<"A","A">>, <<"K","K">>, <<"Q","Q">>, <<"A","K">>, <<"A","Q">>}
    THEN s_premium
    ELSE IF r \in {<<"J","J">>, <<"T","T">>, <<"9","9">>, <<"8","8">>, <<"7","7">>}
    THEN s_strong_pair
    ELSE IF Len(r) = 2 /\ r[1] = r[2]
    THEN s_small_pair
    ELSE IF r \in {<<"K","Q">>, <<"Q","J">>, <<"J","T">>, <<"J","Q">>, <<"K","J">>}
    THEN s_strong_broadway
    ELSE IF r \in connectors
    THEN s_suited_connector
    ELSE s_weak_offsuit

\* C25 as stated: hand_class returns for every descriptor the category of the
\* fixed sets, 98/87/76/65/54 being the suited connectors and everything not
\* listed weak offsuit, whatever marker follows the ranks.
C25_FixedSetsAsListed ==
    pc = "done"
    => result = PyStr(ClassBySets(RanksOf(state.hero_hand), LISTED_CONNECTORS))

\* C25: hand_class returns for every descriptor, the empty one included, the
\* one category of the fixed sets, whatever marker follows the ranks, the
\* suited connectors being 98/87/76/65/54 in either order of the two ranks
\* (89, 78, 67, 56 and 45 as well).
C25_FixedSetsEitherOrder ==
    pc = "done"
    => result = PyStr(ClassBySets(RanksOf(state.hero_hand),
                                  LISTED_CONNECTORS
                                    \cup {Reversed(c) : c \in LISTED_CONNECTORS}))

\* C25 witness: "89s" is classified a suited connector
C25_Witness ==
    /\ pc = "done"
    /\ state.hero_hand = <<"8","9","s">>
    /\ result = PyStr(s_suited_connector)

\* The description holds the token at some place, letter case set aside
HoldsToken(s, token) ==
    \E i \in 1..Len(s) :
        /\ i + Len(token) - 1 <= Len(s)
        /\ \A k \in 1..Len(token) : LowerChar(s[i + k - 1]) = token[k]

\* No description, an empty one or one of white space only
NoDescription(opener) ==
    \/ opener = PyNone
    \/ opener.t = "str" /\ \A i \in 1..Len(opener.s) : opener.s[i] \in WHITESPACE

\* C26: the facing situation of the key is unopened or vs_open: unopened for
\* an empty, absent or whitespace-only opener description, vs_open for one
\* that contains "open" or "raise" in any letter case, unopened for all others.
C26_FacingSituation ==
    pc = "done"
    => (/\ result[3] \in {PyStr(s_unopened), PyStr(s_vs_open)}
        /\ NoDescription(state.opener) => result[3] = PyStr(s_unopened)
        /\ (~NoDescription(state.opener)
              /\ (HoldsToken(state.opener.s, <<"o","p","e","n">>)
                    \/ HoldsToken(state.opener.s, <<"r","a","i","s","e">>)))
              => result[3] = PyStr(s_vs_open)
        /\ (~NoDescription(state.opener)
              /\ ~HoldsToken(state.opener.s, <<"o","p","e","n">>)
              /\ ~HoldsToken(state.opener.s, <<"r","a","i","s","e">>))
              => result[3] = PyStr(s_unopened))

\* C26 witness: "UTG RAISES" gives the key the situation vs_open
C26_Witness ==
    /\ pc = "done"
    /\ state.opener = PyStr(<<"U","T","G"," ","R","A","I","S","E","S">>)
    /\ result[3] = PyStr(s_vs_open)

C28_NoteIffAdjusted ==
    (MatchedOnce /\ result.kind = "return")
    => (~OnlyMatchNote(result.note)
          <=> (result.action # RawRow.action \/ result.size # RawRow.size))

\* C29: add_hand stores every added hand under an identifier unique to that
\* add, with player_action None: after n add_hand calls the session holds n
\* hands, the identifier returned was not in use before, and a player_action
\* recorded for an earlier hand is not reset or lost by a later add_hand.
C29_EveryAddKept ==
    /\ [](Cardinality(DOMAIN session.hands) = session.adds)
    /\ [][session'.adds = session.adds + 1
            => (/\ session'.hand_id \notin DOMAIN session.hands
                /\ session'.hands[session'.hand_id].player_action = PyNone
                /\ \A k \in DOMAIN session.hands :
                      session.hands[k].player_action # PyNone
                      => (/\ k \in DOMAIN session'.hands
                          /\ session'.hands[k].player_action
                                = session.hands[k].player_action))]_vars

\* The stored index, if any, is an index into n hands
ValidIndex(quiz_idx, n) == (n > 0 /\ quiz_idx # PyNone) => quiz_idx.n \in 0..(n - 1)

\* C30: in quiz mode the index is a valid index into the stored hands whenever
\* a hand exists, after any interleaving of adding hands and "Reveal & Next",
\* and no page run fails on it; a "Reveal & Next" moves the index to the next
\* hand and from the last hand to 0.
C30_QuizIndexValid ==
    /\ [](/\ ~ui.raised
          /\ ValidIndex(ui.quiz_idx, Len(ui.hands))
          /\ ValidIndex(ui.quiz_index, Len(session.order)))
    /\ [][/\ (ui' # ui /\ ui'.event = "reveal")
               => ui'.quiz_idx.n = (ui.quiz_idx.n + 1) % Len(ui.hands)
          /\ (ui' # ui /\ ui'.event = "session reveal")
               => ui'.quiz_index.n = (ui.quiz_index.n + 1) % Len(session.order)]_vars

\* C30 witness: "Reveal & Next" on the last of three hands, two of them added
\* after the quiz began, has taken the index back to 0
C30_Witness ==
    /\ ui.event = "reveal"
    /\ ui.quiz_idx = PyInt(0)
    /\ Len(ui.hands) = 3
    /\ Len(session.order) >= 1

====
